---- MODULE Spec2Model ----
(***************************************************************************)
(* Model of src/src/components/ExcelProcessor.tsx: the ExcelProcessor      *)
(* component's state, its handlers (handleFile, handleDrop, processSheet,  *)
(* downloadData, reset, showMessage) and the text renderings built inside  *)
(* processSheet.                                                           *)
(*                                                                         *)
(* Text is a sequence of tokens.  Every character that some renderer or    *)
(* parser treats specially (pipe, comma, quote, backslash, newline, tab,   *)
(* space, colon, letters and digits of a range) is a token of its own;     *)
(* fixed literal chunks of the templates are single tokens.                *)
(*                                                                         *)
(* The calls into the xlsx library (decode_range, encode_cell,             *)
(* sheet_to_json, sheet_to_csv, read) are modelled at their call sites by  *)
(* what the library does for string/number cells that carry formatted      *)
(* text.                                                                   *)
(***************************************************************************)
EXTENDS Integers, Sequences, FiniteSets, Bags, TLC

NL == "\n"
TAB == "\t"
Q == "\""
BS == "\\"
PIPE == "|"
COMMA == ","
SP == " "

Null == [null |-> TRUE]

(* ---------------------------------------------------------------------- *)
(* Sequence helpers (Array.prototype.join, indexOf, slice)                 *)
(* ---------------------------------------------------------------------- *)

RECURSIVE CatRange(_, _, _)
CatRange(f, lo, hi) ==
  IF lo > hi THEN <<>>
  ELSE IF lo = hi THEN f[lo]
  ELSE LET mid == (lo + hi) \div 2
       IN CatRange(f, lo, mid) \o CatRange(f, mid + 1, hi)

Concat(seqs) == CatRange(seqs, 1, Len(seqs))

\* arr.join(sep) for an array of texts
join(arr, sep) ==
  Concat([k \in 1..(2 * Len(arr) - 1) |->
            IF k % 2 = 1 THEN arr[(k + 1) \div 2] ELSE sep])

\* str.indexOf(ch), 1-based; 0 when absent (JavaScript's -1)
indexOf(str, ch) ==
  IF \E i \in DOMAIN str : str[i] = ch
  THEN CHOOSE i \in DOMAIN str : str[i] = ch /\ \A j \in 1..(i - 1) : str[j] # ch
  ELSE 0

\* number of occurrences of token ch in str
Count(str, ch) == Cardinality({i \in DOMAIN str : str[i] = ch})

(* ---------------------------------------------------------------------- *)
(* XLSX.utils.decode_range / encode_cell                                   *)
(* ---------------------------------------------------------------------- *)

Alphabet ==
  <<"A", "B", "C", "D", "E", "F", "G", "H", "I", "J", "K", "L", "M",
    "N", "O", "P", "Q", "R", "S", "T", "U", "V", "W", "X", "Y", "Z">>

Digits == <<"0", "1", "2", "3", "4", "5", "6", "7", "8", "9">>

IsDigit(ch) == \E i \in DOMAIN Digits : Digits[i] = ch
IsUpper(ch) == \E i \in DOMAIN Alphabet : Alphabet[i] = ch
DigitVal(ch) == (CHOOSE i \in DOMAIN Digits : Digits[i] = ch) - 1
LetterVal(ch) == CHOOSE i \in DOMAIN Alphabet : Alphabet[i] = ch

\* decode_cell: digits accumulate the row, capitals the column, anything
\* else is skipped; both come out one less (0-based, -1 when absent)
RECURSIVE decode_acc(_, _, _, _)
decode_acc(cstr, i, R, C) ==
  IF i > Len(cstr) THEN [c |-> C - 1, r |-> R - 1]
  ELSE IF IsDigit(cstr[i]) THEN decode_acc(cstr, i + 1, 10 * R + DigitVal(cstr[i]), C)
  ELSE IF IsUpper(cstr[i]) THEN decode_acc(cstr, i + 1, R, 26 * C + LetterVal(cstr[i]))
  ELSE decode_acc(cstr, i + 1, R, C)

decode_cell(cstr) == decode_acc(cstr, 1, 0, 0)

\* decode_range: split at the first colon, no validation, no swapping
decode_range(rng) ==
  LET idx == indexOf(rng, ":")
  IN IF idx = 0
     THEN [s |-> decode_cell(rng), e |-> decode_cell(rng)]
     ELSE [s |-> decode_cell(SubSeq(rng, 1, idx - 1)),
           e |-> decode_cell(SubSeq(rng, idx + 1, Len(rng)))]

\* encode_col (it throws "invalid column" for a negative column, see
\* ExtractionThrows)
RECURSIVE encode_col_acc(_, _)
encode_col_acc(col, s) ==
  IF col = 0 THEN s
  ELSE encode_col_acc((col - 1) \div 26, Alphabet[((col - 1) % 26) + 1] \o s)

encode_col(col) == encode_col_acc(col + 1, "")

encode_row(row) == ToString(row + 1)

encode_cell(cell) == encode_col(cell.c) \o encode_row(cell.r)

(* ---------------------------------------------------------------------- *)
(* Workbooks as XLSX.read returns them                                     *)
(* ---------------------------------------------------------------------- *)

\* a cell object: w is the formatted text, f the formula (empty when the
\* cell has none; the code tests cell.f for truthiness)
Cell(w, f) == [w |-> w, f |-> f]

\* worksheet "Data": used range A1:C2, B2 has no cell object
DataSheet ==
  [ref |-> [s |-> [c |-> 0, r |-> 0], e |-> [c |-> 2, r |-> 1]],
   cells |-> [a \in {"A1", "B1", "C1", "A2", "C2"} |->
               CASE a = "A1" -> Cell(<<"1", "0">>, <<>>)
                 [] a = "B1" -> Cell(<<"2", "0">>, <<"A1*2">>)
                 [] a = "C1" -> Cell(<<"a", PIPE, "b">>, <<>>)
                 [] a = "A2" -> Cell(<<"x">>, <<>>)
                 [] a = "C2" -> Cell(<<"a", COMMA, "b">>, <<"A2&C1">>)]]

\* worksheet "Blank": no cells and no "!ref" entry
BlankSheet == [ref |-> Null, cells |-> [a \in {} |-> Cell(<<>>, <<>>)]]

\* worksheet "Other": the single cell A1
OtherSheet ==
  [ref |-> [s |-> [c |-> 0, r |-> 0], e |-> [c |-> 0, r |-> 0]],
   cells |-> [a \in {"A1"} |-> Cell(<<"k">>, <<"NOW()">>)]]

Book1 ==
  [id |-> "book1",
   SheetNames |-> <<"Data", "Blank">>,
   Sheets |-> [n \in {"Data", "Blank"} |->
                IF n = "Data" THEN DataSheet ELSE BlankSheet]]

Book2 ==
  [id |-> "book2",
   SheetNames |-> <<"Other">>,
   Sheets |-> [n \in {"Other"} |-> OtherSheet]]

(* ---------------------------------------------------------------------- *)
(* Files the user can hand to the component                                *)
(* ---------------------------------------------------------------------- *)

MaxFileSize == 10 * 1024 * 1024

XlsxType == "application/vnd.openxmlformats-officedocument.spreadsheetml.sheet"
XlsType == "application/vnd.ms-excel"
validTypes == {XlsxType, XlsType}

\* ext: the name ends in .xlsx or .xls; content: what XLSX.read makes of
\* the bytes, Null when it throws
Files ==
  {[name |-> "book1.xlsx", size |-> 2048, type |-> XlsxType, ext |-> TRUE,
    content |-> Book1],
   [name |-> "book2.xls", size |-> 4096, type |-> "", ext |-> TRUE,
    content |-> Book2],
   [name |-> "broken.xlsx", size |-> 512, type |-> XlsxType, ext |-> TRUE,
    content |-> Null],
   [name |-> "huge.xlsx", size |-> MaxFileSize + 1, type |-> XlsxType,
    ext |-> TRUE, content |-> Book1],
   [name |-> "notes.txt", size |-> 100, type |-> "text/plain", ext |-> FALSE,
    content |-> Null]}

(* ---------------------------------------------------------------------- *)
(* processSheet: extraction                                                *)
(* ---------------------------------------------------------------------- *)

Height(rangeObj) == rangeObj.e.r - rangeObj.s.r + 1
Width(rangeObj) == rangeObj.e.c - rangeObj.s.c + 1

\* worksheet[cellAddress]
HasCell(worksheet, addr) == addr \in DOMAIN worksheet.cells

\* text of one coordinate under { raw: false, defval: "" }
CellText(worksheet, R, C) ==
  LET addr == encode_cell([r |-> R, c |-> C])
  IN IF HasCell(worksheet, addr) THEN worksheet.cells[addr].w ELSE <<>>

\* XLSX.utils.sheet_to_json(worksheet, {range, header: 1, raw: false,
\* defval: ""}).  The library returns [] at once for a sheet that has no
\* "!ref" (an empty sheet), before it looks at the range option; otherwise
\* header: 1 gives one array per row of the range (blank rows are kept) and
\* defval gives every column of the range an entry
sheet_to_json(worksheet, rangeObj) ==
  IF worksheet.ref = Null THEN <<>>
  ELSE [i \in 1..Height(rangeObj) |->
         [j \in 1..Width(rangeObj) |->
           CellText(worksheet, rangeObj.s.r + i - 1, rangeObj.s.c + j - 1)]]

\* the library throws on a negative column as soon as it encodes one:
\* in sheet_to_json's column loop, or in encode_cell of the formula loop
ExtractionThrows(worksheet, rangeObj) ==
  /\ rangeObj.s.c < 0
  /\ rangeObj.s.c <= rangeObj.e.c
  /\ worksheet.ref # Null \/ rangeObj.s.r <= rangeObj.e.r

\* the formula loop with its inner bound read as C < rangeObj.e.c
LoopCells_exclusive(rangeObj) ==
  IF Height(rangeObj) <= 0 \/ Width(rangeObj) - 1 <= 0 THEN <<>>
  ELSE [k \in 1..(Height(rangeObj) * (Width(rangeObj) - 1)) |->
         encode_cell([r |-> rangeObj.s.r + ((k - 1) \div (Width(rangeObj) - 1)),
                      c |-> rangeObj.s.c + ((k - 1) % (Width(rangeObj) - 1))])]

\* the coordinates of the formula loop in visiting order
LoopCells(rangeObj) ==
  IF Height(rangeObj) <= 0 \/ Width(rangeObj) <= 0 THEN <<>>
  ELSE [k \in 1..(Height(rangeObj) * Width(rangeObj)) |->
         encode_cell([r |-> rangeObj.s.r + ((k - 1) \div Width(rangeObj)),
                      c |-> rangeObj.s.c + ((k - 1) % Width(rangeObj))])]

\* formulas, as the insertion-ordered entries of the object
FormulaEntries(worksheet, rangeObj) ==
  LET hasF(addr) == HasCell(worksheet, addr) /\ worksheet.cells[addr].f # <<>>
      hits == SelectSeq(LoopCells(rangeObj), hasF)
  IN [k \in 1..Len(hits) |-> [cell |-> hits[k], formula |-> worksheet.cells[hits[k]].f]]

(* ---------------------------------------------------------------------- *)
(* processSheet: the renderings                                            *)
(* ---------------------------------------------------------------------- *)

\* delimited text of one field: quoted, with quotes doubled, when it holds
\* the field separator, the row separator or a quote; "ID" is always quoted
CsvField(txt) ==
  IF \E i \in DOMAIN txt : txt[i] \in {COMMA, NL, Q}
  THEN <<Q>> \o Concat([i \in DOMAIN txt |-> IF txt[i] = Q THEN <<Q, Q>> ELSE <<txt[i]>>]) \o <<Q>>
  ELSE IF txt = <<"I", "D">> THEN <<Q, "I", "D", Q>>
  ELSE txt

\* XLSX.utils.sheet_to_csv(worksheet, {FS: ",", RS: "\n"}): no range option
\* is passed, so the rows and columns are those of the sheet's "!ref"
sheet_to_csv(worksheet) ==
  IF worksheet.ref = Null THEN <<>>
  ELSE LET r == worksheet.ref
           field(R, C) ==
             LET addr == encode_cell([r |-> R, c |-> C])
             IN IF HasCell(worksheet, addr)
                THEN CsvField(worksheet.cells[addr].w) ELSE <<>>
           row(R) == join([j \in 1..Width(r) |-> field(R, r.s.c + j - 1)], <<COMMA>>)
       IN join([i \in 1..Height(r) |-> row(r.s.r + i - 1)], <<NL>>)

\* the markdown table: row 0 as headers, a "---" line, then the other rows
Markdown(jsonData) ==
  IF Len(jsonData) > 0
  THEN LET headers == jsonData[1]
           rows == SubSeq(jsonData, 2, Len(jsonData))
           line(cells) == <<PIPE, SP>> \o join(cells, <<SP, PIPE, SP>>) \o <<SP, PIPE, NL>>
       IN line(headers)
          \o line([j \in DOMAIN headers |-> <<"---">>])
          \o Concat([i \in DOMAIN rows |-> line(rows[i])])
  ELSE <<>>

\* rows joined by newline, cells by tab, nothing escaped
Text(jsonData) ==
  join([i \in DOMAIN jsonData |-> join(jsonData[i], <<TAB>>)], <<NL>>)

\* JSON.stringify of one string
JsonString(txt) ==
  <<Q>>
  \o Concat([i \in DOMAIN txt |->
       CASE txt[i] = Q -> <<BS, Q>>
         [] txt[i] = BS -> <<BS, BS>>
         [] txt[i] = NL -> <<BS, "n">>
         [] txt[i] = TAB -> <<BS, "t">>
         [] OTHER -> <<txt[i]>>])
  \o <<Q>>

\* JSON.stringify(jsonData, null, 2)
JsonStringify(jsonData) ==
  LET rowText(row) ==
        IF Len(row) = 0 THEN <<"  ", "[", "]">>
        ELSE <<"  ", "[", NL>>
             \o join([j \in DOMAIN row |-> <<"    ">> \o JsonString(row[j])],
                     <<COMMA, NL>>)
             \o <<NL, "  ", "]">>
  IN IF Len(jsonData) = 0 THEN <<"[", "]">>
     ELSE <<"[", NL>>
          \o join([i \in DOMAIN jsonData |-> rowText(jsonData[i])], <<COMMA, NL>>)
          \o <<NL, "]">>

\* the fixed note block that closes the analysis
NoteBlock ==
  << <<NL, "## LLM Processing Notes:">>,
     <<"This Excel data has been converted for AI processing. The structure includes:">>,
     <<"1. Headers in the first row for context">>,
     <<"2. All formulas extracted and listed separately">>,
     <<"3. Data normalized to text format for better LLM understanding">>,
     <<"4. Range-specific extraction to focus on relevant data">> >>

\* the template with a headers line that stays (empty) when the grid has no row
ExplanationParts_placeholder(selectedSheet, range, jsonData, formulas) ==
  << <<"# Excel Sheet Analysis: ", selectedSheet>>,
     <<NL, "## Data Range: ">> \o range,
     <<NL, "## Structure:">>,
     <<"- Total rows: ", ToString(Len(jsonData))>>,
     <<"- Total columns: ",
       ToString(IF Len(jsonData) > 0 THEN Len(jsonData[1]) ELSE 0)>>,
     <<NL, "## Headers: ">>
       \o (IF Len(jsonData) > 0 THEN join(jsonData[1], <<COMMA, SP>>) ELSE <<>>),
     IF Len(formulas) > 0 THEN <<NL, "## Formulas Found:">> ELSE <<>> >>
  \o [k \in DOMAIN formulas |->
       <<"- Cell ", formulas[k].cell, ": ">> \o formulas[k].formula]
  \o NoteBlock

\* the elements of the array that explanation joins with "\n"
ExplanationParts(selectedSheet, range, jsonData, formulas) ==
  << <<"# Excel Sheet Analysis: ", selectedSheet>>,
     <<NL, "## Data Range: ">> \o range,
     <<NL, "## Structure:">>,
     <<"- Total rows: ", ToString(Len(jsonData))>>,
     <<"- Total columns: ",
       ToString(IF Len(jsonData) > 0 THEN Len(jsonData[1]) ELSE 0)>>,
     IF Len(jsonData) > 0
     THEN <<NL, "## Headers: ">> \o join(jsonData[1], <<COMMA, SP>>)
     ELSE <<>>,
     IF Len(formulas) > 0 THEN <<NL, "## Formulas Found:">> ELSE <<>> >>
  \o [k \in DOMAIN formulas |->
       <<"- Cell ", formulas[k].cell, ": ">> \o formulas[k].formula]
  \o NoteBlock

Explanation(selectedSheet, range, jsonData, formulas) ==
  join(ExplanationParts(selectedSheet, range, jsonData, formulas), <<NL>>)

(* ---------------------------------------------------------------------- *)
(* processSheet as a function of the state it closes over                  *)
(* ---------------------------------------------------------------------- *)

Undefined == [undefined |-> TRUE]

\* workbook.Sheets[selectedSheet]
WorksheetOf(wb, sheetName) ==
  IF sheetName \in DOMAIN wb.Sheets THEN wb.Sheets[sheetName] ELSE Undefined

\* does the try block throw?  An undefined worksheet makes the formula loop
\* throw at its first coordinate; otherwise see ExtractionThrows
TryThrows(worksheet, rangeObj) ==
  IF worksheet = Undefined
  THEN Height(rangeObj) > 0 /\ Width(rangeObj) > 0
  ELSE ExtractionThrows(worksheet, rangeObj)

\* the locals of a processSheet call that ran its try block to the end
Locals(wb, sheetName, rng) ==
  LET worksheet == WorksheetOf(wb, sheetName)
      rangeObj == decode_range(rng)
  IN [rangeObj |-> rangeObj,
      jsonData |-> IF worksheet = Undefined THEN <<>>
                   ELSE sheet_to_json(worksheet, rangeObj),
      formulas |-> IF worksheet = Undefined THEN <<>>
                   ELSE FormulaEntries(worksheet, rangeObj),
      csv |-> IF worksheet = Undefined THEN <<>> ELSE sheet_to_csv(worksheet)]

\* the object handed to setProcessedData
Bundle(sheetName, rng, loc) ==
  [json |-> JsonStringify(loc.jsonData),
   csv |-> loc.csv,
   markdown |-> Markdown(loc.jsonData),
   text |-> Text(loc.jsonData),
   explanation |-> Explanation(sheetName, rng, loc.jsonData, loc.formulas)]

(* ---------------------------------------------------------------------- *)
(* Messages                                                                *)
(* ---------------------------------------------------------------------- *)

NoMessage == [type |-> "none", text |-> <<>>]

MsgTooLarge == <<"File size must be less than 10MB">>
MsgBadType == <<"Please upload a valid Excel file (.xlsx or .xls)">>
MsgUploaded(n) == <<"File uploaded! Found ", ToString(n), " sheet(s)">>
MsgReadError == <<"Error reading file. Please check the file format.">>
MsgProcessed == <<"Processing complete! Data is ready for AI consumption.">>
MsgProcessError == <<"Error processing sheet. Please check your range and try again.">>
MsgDownload == <<"Download started!">>

\* setMessage({type, text}); the timeout it arms is the action ClearMessage
showMessage(type, text) == [type |-> type, text |-> text]

(* ---------------------------------------------------------------------- *)
(* Inputs and bounds                                                       *)
(* ---------------------------------------------------------------------- *)

DefaultRange == <<"A", "1", ":", "Z", "1", "0", "0">>

\* what the user may type into the range field
RangeInputs ==
  {DefaultRange,
   <<"A", "1", ":", "B", "2">>,
   <<"Z", "1", ":", "A", "1">>,
   <<"1", ":", "1">>}

Formats == {"json", "csv", "markdown", "text"}

\* most byte reads in flight at once
MaxInFlight == 2

(* ---------------------------------------------------------------------- *)
(* State                                                                   *)
(* ---------------------------------------------------------------------- *)

VARIABLES
  file,           \* File | null
  sheets,         \* string[]
  selectedSheet,  \* string
  range,          \* string
  processedData,  \* ProcessedData | null
  outputFormat,   \* "json" | "csv" | "markdown" | "text"
  isProcessing,   \* boolean
  message,        \* {type, text}
  workbook,       \* XLSX.WorkBook | null
  activeTab,      \* "preview" | "analysis"
  pending,        \* the files of the handleFile calls suspended at their await (a bag)
  last            \* what the most recent handler call did (its locals and outputs)

vars == <<file, sheets, selectedSheet, range, processedData, outputFormat,
          isProcessing, message, workbook, activeTab, pending, last>>

Idle == [op |-> "none"]

Init ==
  /\ file = Null
  /\ sheets = <<>>
  /\ selectedSheet = ""
  /\ range = DefaultRange
  /\ processedData = Null
  /\ outputFormat = "json"
  /\ isProcessing = FALSE
  /\ message = NoMessage
  /\ workbook = Null
  /\ activeTab = "preview"
  /\ pending = EmptyBag
  /\ last = Idle

(* ---------------------------------------------------------------------- *)
(* Handlers                                                                *)
(* ---------------------------------------------------------------------- *)

\* handleFile up to its await: validation, then setIsProcessing(true),
\* setFile(uploadedFile) and the byte read is started
handleFileBegin(uploadedFile) ==
  IF uploadedFile.size > MaxFileSize
  THEN /\ message' = showMessage("error", MsgTooLarge)
       /\ last' = [op |-> "handleFile", failure |-> "size"]
       /\ UNCHANGED <<file, isProcessing, pending>>
  ELSE IF uploadedFile.type \notin validTypes /\ ~uploadedFile.ext
  THEN /\ message' = showMessage("error", MsgBadType)
       /\ last' = [op |-> "handleFile", failure |-> "type"]
       /\ UNCHANGED <<file, isProcessing, pending>>
  ELSE /\ BagCardinality(pending) < MaxInFlight
       /\ isProcessing' = TRUE
       /\ file' = uploadedFile
       /\ pending' = pending (+) SetToBag({uploadedFile})
       /\ last' = [op |-> "handleFile", failure |-> "none"]
       /\ UNCHANGED message

\* the file input's onChange; the input is disabled while isProcessing
handleInputChange(uploadedFile) ==
  /\ ~isProcessing
  /\ handleFileBegin(uploadedFile)
  /\ UNCHANGED <<sheets, selectedSheet, range, processedData, outputFormat, workbook,
                 activeTab>>

\* onDrop of the drop zone; nothing disables it
handleDrop(uploadedFile) ==
  /\ handleFileBegin(uploadedFile)
  /\ UNCHANGED <<sheets, selectedSheet, range, processedData, outputFormat, workbook,
                 activeTab>>

\* handleFile from its await on, without the setSelectedSheet call: the
\* selection made in the previous workbook is kept
handleFileResume_keepsSelection(uploadedFile) ==
  /\ BagIn(uploadedFile, pending)
  /\ LET wb == uploadedFile.content
     IN IF wb # Null
        THEN /\ workbook' = wb
             /\ sheets' = wb.SheetNames
             /\ message' = showMessage("success", MsgUploaded(Len(wb.SheetNames)))
             /\ last' = [op |-> "handleFile", failure |-> "none"]
             /\ UNCHANGED <<file, selectedSheet>>
        ELSE /\ message' = showMessage("error", MsgReadError)
             /\ file' = Null
             /\ last' = [op |-> "handleFile", failure |-> "decode"]
             /\ UNCHANGED <<workbook, sheets, selectedSheet>>
  /\ isProcessing' = FALSE
  /\ pending' = pending (-) SetToBag({uploadedFile})
  /\ UNCHANGED <<range, processedData, outputFormat, activeTab>>

\* handleFile from its await on: a suspended call for uploadedFile gets its
\* bytes and runs to its end
handleFileResume(uploadedFile) ==
  /\ BagIn(uploadedFile, pending)
  /\ LET wb == uploadedFile.content
     IN IF wb # Null
        THEN /\ workbook' = wb
             /\ sheets' = wb.SheetNames
             /\ selectedSheet' = IF Len(wb.SheetNames) > 0 THEN wb.SheetNames[1] ELSE ""
             /\ message' = showMessage("success", MsgUploaded(Len(wb.SheetNames)))
             /\ last' = [op |-> "handleFile", failure |-> "none"]
             /\ UNCHANGED file
        ELSE /\ message' = showMessage("error", MsgReadError)
             /\ file' = Null
             /\ last' = [op |-> "handleFile", failure |-> "decode"]
             /\ UNCHANGED <<workbook, sheets, selectedSheet>>
  /\ isProcessing' = FALSE
  /\ pending' = pending (-) SetToBag({uploadedFile})
  /\ UNCHANGED <<range, processedData, outputFormat, activeTab>>

\* the sheet and range controls are rendered when file && sheets.length > 0
ControlsShown == file # Null /\ Len(sheets) > 0

setSelectedSheet(name) ==
  /\ ControlsShown
  /\ \E k \in DOMAIN sheets : sheets[k] = name
  /\ selectedSheet' = name
  /\ last' = Idle
  /\ UNCHANGED <<file, sheets, range, processedData, outputFormat, isProcessing,
                 message, workbook, activeTab, pending>>

setRange(rng) ==
  /\ ControlsShown
  /\ range' = rng
  /\ last' = Idle
  /\ UNCHANGED <<file, sheets, selectedSheet, processedData, outputFormat,
                 isProcessing, message, workbook, activeTab, pending>>

\* processSheet publishing the record rendering before the formula loop runs,
\* so that a call that throws leaves a bundle with one field
processSheet_partial ==
  /\ ControlsShown
  /\ ~isProcessing
  /\ selectedSheet # ""
  /\ IF workbook = Null \/ selectedSheet = ""
     THEN /\ last' = [op |-> "processSheet", outcome |-> "skipped"]
          /\ UNCHANGED <<processedData, message, isProcessing>>
     ELSE LET worksheet == WorksheetOf(workbook, selectedSheet)
              rangeObj == decode_range(range)
          IN /\ IF TryThrows(worksheet, rangeObj)
                THEN /\ message' = showMessage("error", MsgProcessError)
                     /\ last' = [op |-> "processSheet", outcome |-> "threw",
                                 rangeObj |-> rangeObj]
                     /\ processedData' = [json |-> JsonStringify(<<>>)]
                ELSE LET loc == Locals(workbook, selectedSheet, range)
                     IN /\ processedData' = Bundle(selectedSheet, range, loc)
                        /\ message' = showMessage("success", MsgProcessed)
                        /\ last' = [op |-> "processSheet", outcome |-> "done",
                                    loc |-> loc]
             /\ isProcessing' = FALSE
  /\ UNCHANGED <<file, sheets, selectedSheet, range, outputFormat, workbook, activeTab, pending>>

\* the "Process Sheet" button: disabled={isProcessing || !selectedSheet}
processSheet ==
  /\ ControlsShown
  /\ ~isProcessing
  /\ selectedSheet # ""
  /\ IF workbook = Null \/ selectedSheet = ""
     THEN /\ last' = [op |-> "processSheet", outcome |-> "skipped"]
          /\ UNCHANGED <<processedData, message, isProcessing>>
     ELSE LET worksheet == WorksheetOf(workbook, selectedSheet)
              rangeObj == decode_range(range)
          IN /\ IF TryThrows(worksheet, rangeObj)
                THEN /\ message' = showMessage("error", MsgProcessError)
                     /\ last' = [op |-> "processSheet", outcome |-> "threw",
                                 rangeObj |-> rangeObj]
                     /\ UNCHANGED processedData
                ELSE LET loc == Locals(workbook, selectedSheet, range)
                     IN /\ processedData' = Bundle(selectedSheet, range, loc)
                        /\ message' = showMessage("success", MsgProcessed)
                        /\ last' = [op |-> "processSheet", outcome |-> "done",
                                    loc |-> loc]
             /\ isProcessing' = FALSE
  /\ UNCHANGED <<file, sheets, selectedSheet, range, outputFormat, workbook, activeTab, pending>>

\* the format selector is rendered once a bundle exists
setOutputFormat(fmt) ==
  /\ processedData # Null
  /\ outputFormat' = fmt
  /\ last' = Idle
  /\ UNCHANGED <<file, sheets, selectedSheet, range, processedData, isProcessing,
                 message, workbook, activeTab, pending>>

\* the format map with the data of csv and markdown exchanged
formatMap_swapped(pd) ==
  [fmt \in Formats |->
    CASE fmt = "json" -> [data |-> pd.json, ext |-> "json", mime |-> "application/json"]
      [] fmt = "csv" -> [data |-> pd.markdown, ext |-> "csv", mime |-> "text/csv"]
      [] fmt = "markdown" -> [data |-> pd.csv, ext |-> "md", mime |-> "text/markdown"]
      [] fmt = "text" -> [data |-> pd.text, ext |-> "txt", mime |-> "text/plain"]]

formatMap(pd) ==
  [fmt \in Formats |->
    CASE fmt = "json" -> [data |-> pd.json, ext |-> "json", mime |-> "application/json"]
      [] fmt = "csv" -> [data |-> pd.csv, ext |-> "csv", mime |-> "text/csv"]
      [] fmt = "markdown" -> [data |-> pd.markdown, ext |-> "md", mime |-> "text/markdown"]
      [] fmt = "text" -> [data |-> pd.text, ext |-> "txt", mime |-> "text/plain"]]

\* the Preview and LLM Analysis tab buttons are rendered once a bundle exists
Tabs == {"preview", "analysis"}

setActiveTab(tab) ==
  /\ processedData # Null
  /\ activeTab' = tab
  /\ last' = Idle
  /\ UNCHANGED <<file, sheets, selectedSheet, range, processedData, outputFormat,
                 isProcessing, message, workbook, pending>>

\* downloadData: the blob and the file name given to the anchor
downloadData ==
  /\ IF processedData = Null
     THEN /\ last' = [op |-> "downloadData", started |-> FALSE]
          /\ UNCHANGED message
     ELSE LET format == formatMap(processedData)[outputFormat]
          IN /\ last' = [op |-> "downloadData", started |-> TRUE,
                         blob |-> [data |-> format.data, type |-> format.mime],
                         download |-> "excel-export." \o format.ext]
             /\ message' = showMessage("success", MsgDownload)
  /\ UNCHANGED <<file, sheets, selectedSheet, range, processedData, outputFormat,
                 isProcessing, workbook, activeTab, pending>>

\* the Reset button is rendered when file is set
reset ==
  /\ file # Null
  /\ file' = Null
  /\ sheets' = <<>>
  /\ selectedSheet' = ""
  /\ workbook' = Null
  /\ processedData' = Null
  /\ range' = DefaultRange
  /\ last' = Idle
  /\ UNCHANGED <<outputFormat, isProcessing, message, activeTab, pending>>

\* the timeout armed by showMessage fires.  A message on display always has
\* its own timeout outstanding, and a timeout that fires with no message on
\* display changes nothing.
ClearMessage ==
  /\ message.type # "none"
  /\ message' = NoMessage
  /\ last' = Idle
  /\ UNCHANGED <<file, sheets, selectedSheet, range, processedData, outputFormat,
                 isProcessing, workbook, activeTab, pending>>

SheetNames == {"Data", "Blank", "Other"}

\* the ranges typed in the lifecycle specification
LifecycleRanges == {DefaultRange, <<"Z", "1", ":", "A", "1">>}

\* The component from construction on: uploads through the file input and the
\* drop zone, their completions in any order, sheet and range edits,
\* processing, reset and the message timeout.
Next ==
  \/ \E f \in Files : handleInputChange(f)
  \/ \E f \in Files : handleDrop(f)
  \/ \E f \in Files : handleFileResume(f)
  \/ \E name \in SheetNames : setSelectedSheet(name)
  \/ \E rng \in LifecycleRanges : setRange(rng)
  \/ processSheet
  \/ reset
  \/ ClearMessage

Spec == Init /\ [][Next]_vars

\* The component once an upload has completed and its message has timed out:
\* sheet and range edits, processing, format selection, export and reset.
SheetInit ==
  \E f \in {g \in Files : g.size <= MaxFileSize /\ g.ext /\ g.content # Null} :
    /\ file = f
    /\ workbook = f.content
    /\ sheets = f.content.SheetNames
    /\ selectedSheet = f.content.SheetNames[1]
    /\ range = DefaultRange
    /\ processedData = Null
    /\ outputFormat = "json"
    /\ isProcessing = FALSE
    /\ message = NoMessage
    /\ activeTab = "preview"
    /\ pending = EmptyBag
    /\ last = Idle

SheetNext ==
  \/ \E name \in SheetNames : setSelectedSheet(name)
  \/ \E rng \in RangeInputs : setRange(rng)
  \/ processSheet
  \/ \E fmt \in Formats : setOutputFormat(fmt)
  \/ \E tab \in Tabs : setActiveTab(tab)
  \/ downloadData
  \/ reset
  \/ ClearMessage

SheetSpec == SheetInit /\ [][SheetNext]_vars

(* ---------------------------------------------------------------------- *)
(* Properties                                                              *)
(* ---------------------------------------------------------------------- *)

\* the most recent handler call was a processSheet that ran to its end
Done == last.op = "processSheet" /\ last.outcome = "done"

\* the most recent handler call was a processSheet (whatever its outcome)
Processed == last.op = "processSheet" /\ last.outcome # "skipped"

\* the inputs the most recent call closed over; no handler that sets last to a
\* processSheet or downloadData record changes them
CurrentSheet == WorksheetOf(workbook, selectedSheet)
CurrentBound == decode_range(range)

\* end before start, in rows or in columns
Inverted(rangeObj) ==
  rangeObj.e.r < rangeObj.s.r \/ rangeObj.e.c < rangeObj.s.c

\* the addresses of the coordinates inside a bound
AddressesIn(rangeObj) ==
  {encode_cell([r |-> rc[1], c |-> rc[2]]) :
     rc \in (rangeObj.s.r..rangeObj.e.r) \X (rangeObj.s.c..rangeObj.e.c)}

GridRows(jsonData) == Len(jsonData)
GridCols(jsonData) == IF Len(jsonData) > 0 THEN Len(jsonData[1]) ELSE 0

\* C1: for every sheet and every bound whose end does not precede its start,
\* the grid of a completed processSheet call has one row per row of the bound
\* and one cell per column of the bound in every row, and a coordinate with
\* no backing cell is the empty string.
C1_GridShape ==
  (Done /\ ~Inverted(CurrentBound)) =>
    LET B == CurrentBound
        jsonData == last.loc.jsonData
    IN /\ Len(jsonData) = Height(B)
       /\ \A i \in DOMAIN jsonData :
            /\ Len(jsonData[i]) = Width(B)
            /\ \A j \in DOMAIN jsonData[i] :
                 ~HasCell(CurrentSheet,
                          encode_cell([r |-> B.s.r + i - 1, c |-> B.s.c + j - 1]))
                   => jsonData[i][j] = <<>>

\* C2: the formula map of a completed processSheet call holds exactly the
\* cells inside the bound that carry a formula: every key is the address of a
\* coordinate of the bound, no key occurs twice, every in-bound cell with a
\* formula is mapped to that formula, and nothing else has an entry.
C2_FormulaMapExact ==
  Done =>
    LET formulas == last.loc.formulas
        inBound == AddressesIn(CurrentBound)
        ws == CurrentSheet
    IN /\ \A k \in DOMAIN formulas : formulas[k].cell \in inBound
       /\ \A k, m \in DOMAIN formulas :
            formulas[k].cell = formulas[m].cell => k = m
       /\ \A k \in DOMAIN formulas :
            /\ HasCell(ws, formulas[k].cell)
            /\ ws.cells[formulas[k].cell].f # <<>>
            /\ formulas[k].formula = ws.cells[formulas[k].cell].f
       /\ \A a \in inBound :
            (HasCell(ws, a) /\ ws.cells[a].f # <<>>)
              => \E k \in DOMAIN formulas : formulas[k].cell = a

\* C2 witness: a call on sheet "Data" with the bound A1:B2 has recorded the
\* formula of B1 and not the formula of C2, which lies outside the bound
C2_Witness ==
  /\ Done
  /\ CurrentSheet = DataSheet
  /\ range = <<"A", "1", ":", "B", "2">>
  /\ last.loc.formulas = <<[cell |-> "B1", formula |-> <<"A1*2">>]>>
  /\ DataSheet.cells["C2"].f # <<>>

Max(a, b) == IF a >= b THEN a ELSE b

\* occurrences of token ch in delimited text that lie outside a quoted field
CsvUnquoted(csv, ch) ==
  Cardinality({i \in DOMAIN csv :
                 /\ csv[i] = ch
                 /\ Cardinality({j \in 1..(i - 1) : csv[j] = Q}) % 2 = 0})

\* a rendering has the shape rows x cols when it holds the separators of
\* that many rows and columns
JsonHasShape(json, rows, cols) ==
  /\ Cardinality({i \in 1..(Len(json) - 1) : json[i] = "  " /\ json[i + 1] = "["}) = rows
  /\ Count(json, "    ") = rows * cols
MarkdownHasShape(md, rows, cols) ==
  /\ Count(md, NL) = (IF rows > 0 THEN rows + 1 ELSE 0)
  /\ Count(md, "---") = cols
CsvHasShape(csv, rows, cols) ==
  /\ CsvUnquoted(csv, NL) = Max(rows - 1, 0)
  /\ CsvUnquoted(csv, COMMA) = rows * Max(cols - 1, 0)
TextHasShape(text, rows, cols) ==
  /\ Count(text, NL) = Max(rows - 1, 0)
  /\ Count(text, TAB) = rows * Max(cols - 1, 0)

\* C3: after a completed processSheet call each of the four renderings has
\* the row count and the column count of the grid extracted for the requested
\* range; in particular the delimited output covers the requested range.
C3_RenderingsCoverGrid ==
  Done =>
    LET rows == GridRows(last.loc.jsonData)
        cols == GridCols(last.loc.jsonData)
    IN /\ CsvHasShape(processedData.csv, rows, cols)
       /\ JsonHasShape(processedData.json, rows, cols)
       /\ MarkdownHasShape(processedData.markdown, rows, cols)
       /\ TextHasShape(processedData.text, rows, cols)

\* reading a table line back: the cells are what lies between consecutive
\* pipes, without the padding space on either side
Trim(x) ==
  LET a == IF Len(x) > 0 /\ x[1] = SP THEN SubSeq(x, 2, Len(x)) ELSE x
  IN IF Len(a) > 0 /\ a[Len(a)] = SP THEN SubSeq(a, 1, Len(a) - 1) ELSE a

SplitLine(line) ==
  LET P == {i \in DOMAIN line : line[i] = PIPE}
      nth(k) == CHOOSE p \in P : Cardinality({q \in P : q < p}) = k - 1
  IN [k \in 1..(Cardinality(P) - 1) |->
       Trim(SubSeq(line, nth(k) + 1, nth(k + 1) - 1))]

HeaderLine(md) == SubSeq(md, 1, indexOf(md, NL) - 1)

\* C4: for every grid with at least one row, reading the markdown table back
\* (lines split at newlines, cells split at pipes) gives the header list of
\* grid row 0 and as many data rows as the grid has after row 0, and every
\* line has the same number of columns whatever the cell values contain.
C4_TabularRoundTrip ==
  (Done /\ Len(last.loc.jsonData) > 0) =>
    LET jsonData == last.loc.jsonData
        md == processedData.markdown
    IN /\ SplitLine(HeaderLine(md)) = jsonData[1]
       /\ Count(md, NL) - 2 = Len(jsonData) - 1
       /\ Count(md, PIPE) = Count(md, NL) * (Len(jsonData[1]) + 1)

\* C5: a processSheet call whose range has its end before its start fails
\* with an error: it reports an error message and produces no bundle.
C5_InvertedRangeRejected ==
  (Processed /\ Inverted(CurrentBound)) =>
    /\ last.outcome = "threw"
    /\ message.type = "error"

BundleFields == {"json", "csv", "markdown", "text", "explanation"}

\* C6: processing is all-or-nothing.  A step changes the bundle only by
\* clearing it (reset) or by a processSheet call that ran to its end, and then
\* all five strings are the ones of that call's workbook, sheet and range; a
\* call that throws reports an error and leaves the bundle as it was; a bundle
\* always has its five fields.
C6_AllOrNothing ==
  [][/\ processedData' # processedData =>
          \/ processedData' = Null /\ last'.op = "none"
          \/ /\ last'.op = "processSheet"
             /\ last'.outcome = "done"
             /\ processedData' =
                  Bundle(selectedSheet, range, Locals(workbook, selectedSheet, range))
     /\ (last'.op = "processSheet" /\ last'.outcome = "threw") =>
          /\ processedData' = processedData
          /\ message'.type = "error"
     /\ processedData' # Null => DOMAIN processedData' = BundleFields]_vars

\* C6 witness: a call has thrown while an earlier bundle is on display
C6_Witness ==
  /\ last.op = "processSheet"
  /\ last.outcome = "threw"
  /\ processedData # Null

\* C7: every failure kind reports an error message of its own: the three
\* upload failures each have their text, and a call with a bad range (end
\* before start) reports an error that is none of the upload messages.
C7_FailureMessages ==
  /\ (last.op = "handleFile" /\ last.failure = "size") =>
       message = [type |-> "error", text |-> MsgTooLarge]
  /\ (last.op = "handleFile" /\ last.failure = "type") =>
       message = [type |-> "error", text |-> MsgBadType]
  /\ (last.op = "handleFile" /\ last.failure = "decode") =>
       message = [type |-> "error", text |-> MsgReadError]
  /\ (Processed /\ Inverted(CurrentBound)) =>
       /\ message.type = "error"
       /\ message.text \notin {MsgTooLarge, MsgBadType, MsgReadError}

\* C8: once no load is in flight, the held workbook and sheet list are those
\* of the file recorded as current, which is the most recently requested one.
C8_NewerLoadSupersedes ==
  (pending = EmptyBag /\ file # Null) =>
    /\ file.content # Null
    /\ workbook = file.content
    /\ sheets = file.content.SheetNames

\* the pairing the export is to follow
ExportPairing(fmt) ==
  CASE fmt = "json" -> [field |-> "json", ext |-> "json", mime |-> "application/json"]
    [] fmt = "csv" -> [field |-> "csv", ext |-> "csv", mime |-> "text/csv"]
    [] fmt = "markdown" -> [field |-> "markdown", ext |-> "md", mime |-> "text/markdown"]
    [] fmt = "text" -> [field |-> "text", ext |-> "txt", mime |-> "text/plain"]

\* C9: the selected format is always one of the four (no other value can
\* reach downloadData); an export with a bundle hands over exactly the
\* bundle's string for the selected format with that format's extension and
\* MIME type; an export without a bundle does nothing; no export changes the
\* bundle.
C9_ExportSelection ==
  /\ [](/\ outputFormat \in Formats
        /\ last.op = "downloadData" =>
             IF processedData = Null
             THEN ~last.started
             ELSE /\ last.started
                  /\ last.blob.data = processedData[ExportPairing(outputFormat).field]
                  /\ last.blob.type = ExportPairing(outputFormat).mime
                  /\ last.download = "excel-export." \o ExportPairing(outputFormat).ext)
  /\ [][last'.op = "downloadData" =>
          /\ processedData' = processedData
          /\ ~last'.started =>
               UNCHANGED <<file, sheets, selectedSheet, range, outputFormat,
                           isProcessing, message, workbook, activeTab, pending>>]_vars

\* C9 witness: the markdown rendering has been exported
C9_Witness ==
  /\ last.op = "downloadData"
  /\ last.started
  /\ outputFormat = "markdown"
  /\ last.blob.data = processedData.markdown

\* the k-th position of token tok in str
NthPos(str, tok, k) ==
  CHOOSE p \in DOMAIN str :
    str[p] = tok /\ Cardinality({q \in 1..(p - 1) : str[q] = tok}) = k - 1

C11_BundleFromHeldWorkbook ==
  [][/\ Done' => workbook' = workbook /\ workbook # Null
     /\ workbook' # workbook => processedData' = Null]_vars


\* some handleFile call has started its byte read and has not yet resumed
LoadInFlight == pending # EmptyBag

\* C12: isProcessing is true in every state in which a file load is in
\* flight, whatever the interleaving of file-input selections and drops; in
\* particular the state after one load completes while another is still
\* pending has the flag set.
C12_FlagCoversLoads == LoadInFlight => isProcessing


\* the state reset leaves: no file, workbook, sheet list, selected sheet or
\* bundle, and the initial range.  The component keeps no record of reset
\* having been invoked, so this is how a state after reset is recognised.
Cleared ==
  /\ file = Null
  /\ workbook = Null
  /\ sheets = <<>>
  /\ selectedSheet = ""
  /\ processedData = Null
  /\ range = DefaultRange

\* a step of reset: the file is dropped and no load completes
ResetStep == file # Null /\ file' = Null /\ pending' = pending

\* the user starts a new upload
StartsUpload == file' # Null /\ file' # file

\* the user edits the sheet or the range field
EditsField == workbook' = workbook /\ (range' # range \/ selectedSheet' # selectedSheet)

\* C13: reset leaves file, workbook, sheet list, selected sheet and bundle
\* empty and the range "A1:Z100", and leaves the export format and the active
\* tab as they were; from then on those fields stay empty until the user
\* starts a new upload or edits a field, so a load in flight at the time of
\* reset does not repopulate workbook, sheets or selected sheet.
C13_ResetHolds ==
  [][/\ ResetStep => Cleared' /\ outputFormat' = outputFormat /\ activeTab' = activeTab
     /\ (Cleared /\ ~StartsUpload /\ ~EditsField) => Cleared']_vars


\* the sheet names of the held workbook; none when no workbook is held
HeldSheetNames == IF workbook = Null THEN <<>> ELSE workbook.SheetNames

\* C14: the sheet list is the held workbook's sheet names (empty without a
\* workbook) and the selected sheet is "" or a name in that list, across
\* successful, failed and overlapping uploads, sheet selection and reset; so
\* a processSheet call that ran has looked up a sheet the held workbook has.
C14_SheetsMatchWorkbook ==
  /\ sheets = HeldSheetNames
  /\ selectedSheet = "" \/ \E k \in DOMAIN sheets : sheets[k] = selectedSheet
  /\ Processed => workbook # Null /\ CurrentSheet # Undefined

\* processSheet has run on a sheet the user picked, in a workbook installed by
\* the older of two overlapping uploads (file is the newer upload's)
C14_Witness ==
  /\ Processed
  /\ file # Null
  /\ file.content # workbook
  /\ selectedSheet # sheets[1]

====
